---- MODULE Spec2Model ----
(***************************************************************************)
(* MuseumPass AI (src/main.py): the booking handler book_ticket, the       *)
(* ledger file bookings.json it reads and rewrites, and the chat handler   *)
(* get_relevant_museum.                                                     *)
(*                                                                         *)
(* Text is modelled as a sequence of one-character strings so that lower,  *)
(* upper, strip, replace, re.sub and the `in` substring test are computed  *)
(* as Python computes them.  Money is kept in half rupees (twice the       *)
(* amount) so that kids * ticket_price * 0.5 stays an integer.             *)
(*                                                                         *)
(* BookingRequest is declared with the single field `message`, while       *)
(* book_ticket reads museum_name, ticket_type, booking_date, time_slot,    *)
(* adults, kids and name; the model takes the request to be an object      *)
(* carrying the attributes the body of book_ticket reads.                  *)
(***************************************************************************)
EXTENDS Integers, Sequences, FiniteSets, TLC

VARIABLES museum_data, file, today, hour, last, chatLast, pc, job, overlapped

vars == <<museum_data, file, today, hour, last, chatLast, pc, job, overlapped>>

(***************************************************************************)
(* Bounds of the model.                                                    *)
(***************************************************************************)
MaxDay == 1
MaxLedger == 3

(***************************************************************************)
(* Python str operations on sequences of characters.                       *)
(***************************************************************************)
UpperChars == <<"A", "B", "C", "D", "E", "F", "G", "H", "I", "J", "K", "L", "M", "N", "O", "P", "Q", "R", "S", "T", "U", "V", "W", "X", "Y", "Z">>
LowerChars == <<"a", "b", "c", "d", "e", "f", "g", "h", "i", "j", "k", "l", "m", "n", "o", "p", "q", "r", "s", "t", "u", "v", "w", "x", "y", "z">>
DigitChars == <<"0", "1", "2", "3", "4", "5", "6", "7", "8", "9">>

Range(s) == {s[i] : i \in DOMAIN s}

IndexOf(c, s) == CHOOSE i \in DOMAIN s : s[i] = c

SpaceChars == {" ", "\t", "\n"}

\* the characters \w matches
WordChars == Range(UpperChars) \cup Range(LowerChars) \cup Range(DigitChars) \cup {"_"}

IsSpace(c) == c \in SpaceChars

IsWord(c) == c \in WordChars

LowerOf == [c \in Range(UpperChars) |-> LowerChars[IndexOf(c, UpperChars)]]

UpperOf == [c \in Range(LowerChars) |-> UpperChars[IndexOf(c, LowerChars)]]

DigitValue == [c \in Range(DigitChars) |-> IndexOf(c, DigitChars) - 1]

LowerChar(c) == IF c \in DOMAIN LowerOf THEN LowerOf[c] ELSE c

UpperChar(c) == IF c \in DOMAIN UpperOf THEN UpperOf[c] ELSE c

lower(s) == [i \in DOMAIN s |-> LowerChar(s[i])]

upper(s) == [i \in DOMAIN s |-> UpperChar(s[i])]

capitalize(s) == [i \in DOMAIN s |-> IF i = 1 THEN UpperChar(s[i]) ELSE LowerChar(s[i])]

RECURSIVE lstrip(_)
lstrip(s) == IF s # <<>> /\ IsSpace(Head(s)) THEN lstrip(Tail(s)) ELSE s

RECURSIVE rstrip(_)
rstrip(s) == IF s # <<>> /\ IsSpace(s[Len(s)]) THEN rstrip(SubSeq(s, 1, Len(s) - 1)) ELSE s

strip(s) == rstrip(lstrip(s))

StartsWith(s, p) == Len(p) <= Len(s) /\ SubSeq(s, 1, Len(p)) = p

Drop(s, n) == SubSeq(s, n + 1, Len(s))

\* sub in s
Contains(s, sub) == \E i \in 0..(Len(s) - Len(sub)) : SubSeq(s, i + 1, i + Len(sub)) = sub

\* s.replace(old, new), old non-empty: leftmost non-overlapping occurrences
RECURSIVE replace(_, _, _)
replace(s, old, new) ==
    IF s = <<>> THEN <<>>
    ELSE IF StartsWith(s, old) THEN new \o replace(Drop(s, Len(old)), old, new)
    ELSE <<Head(s)>> \o replace(Tail(s), old, new)

\* re.sub(r"\s+", " ", s)
RECURSIVE collapse_spaces(_)
collapse_spaces(s) ==
    IF s = <<>> THEN <<>>
    ELSE IF IsSpace(Head(s)) THEN <<" ">> \o collapse_spaces(lstrip(s))
    ELSE <<Head(s)>> \o collapse_spaces(Tail(s))

\* re.sub(r"[^\w\s]", "", s)
drop_punctuation(s) == SelectSeq(s, LAMBDA c : IsWord(c) \/ IsSpace(c))

clean_input(text) == lower(drop_punctuation(text))

\* int(s) for a string of decimal digits
RECURSIVE parse_int(_)
parse_int(s) ==
    IF s = <<>> THEN 0
    ELSE 10 * parse_int(SubSeq(s, 1, Len(s) - 1)) + DigitValue[s[Len(s)]]

\* s.split(sep)[0]
RECURSIVE split_first(_, _)
split_first(s, sep) ==
    IF s = <<>> \/ Head(s) = sep THEN <<>>
    ELSE <<Head(s)>> \o split_first(Tail(s), sep)

(***************************************************************************)
(* Program constants.                                                      *)
(***************************************************************************)
TIME_SLOTS ==
    << <<"1", "0", ":", "0", "0", " ", "A", "M">>,
       <<"1", "1", ":", "0", "0", " ", "A", "M">>,
       <<"1", "2", ":", "0", "0", " ", "P", "M">>,
       <<"1", ":", "0", "0", " ", "P", "M">>,
       <<"2", ":", "0", "0", " ", "P", "M">>,
       <<"3", ":", "0", "0", " ", "P", "M">>,
       <<"4", ":", "0", "0", " ", "P", "M">>,
       <<"5", ":", "0", "0", " ", "P", "M">> >>

s_standard == <<"s", "t", "a", "n", "d", "a", "r", "d">>
s_elite == <<"e", "l", "i", "t", "e">>
s_premium == <<"p", "r", "e", "m", "i", "u", "m">>

TICKET_TYPE == (s_standard :> 0) @@ (s_elite :> 300) @@ (s_premium :> 100)

MAX_VISITORS_PER_DAY == 500

BOOKING_WINDOW_DAYS == 60

(***************************************************************************)
(* The catalog museums.json holds (a sample of it; ratings in tenths).     *)
(***************************************************************************)
SampleCatalog ==
    << [title |-> <<"A", "r", "t">>, location |-> <<"P", "a", "n", "a", "j", "i">>,
        state |-> <<"G", "o", "a">>, price |-> 100, rating |-> 47,
        contact |-> "c-art", address |-> "a-art"],
       [title |-> <<"S", "c", "i">>, location |-> <<"P", "u", "n", "e">>,
        state |-> <<"M", "H">>, price |-> 185, rating |-> 42,
        contact |-> "c-sci", address |-> "a-sci"] >>

(***************************************************************************)
(* Dates.  A date string is the calendar day it spells (a day number) and  *)
(* its spelling, or a string strptime refuses; a datetime.date is a day    *)
(* number.  The two are different Python types.                            *)
(***************************************************************************)
DateStr(d, f) == [t |-> "str", ok |-> TRUE, day |-> d, form |-> f]

BadDateStr == [t |-> "str", ok |-> FALSE, day |-> 0, form |-> "junk"]

DateObj(d) == [t |-> "date", ok |-> TRUE, day |-> d, form |-> "date"]

\* datetime.datetime.strptime(s, "%Y-%m-%d").date(); %m and %d accept one digit
strptime(s) == IF s.ok THEN [ok |-> TRUE, date |-> DateObj(s.day)] ELSE [ok |-> FALSE, date |-> DateObj(0)]

\* a == b on Python values: values of different types are never equal
py_eq(a, b) == IF a.t # b.t THEN FALSE ELSE a = b

(***************************************************************************)
(* bookings.json: missing, or a text that is blank, not JSON, or the JSON  *)
(* array json.dump wrote.                                                  *)
(***************************************************************************)
BlankText == [kind |-> "blank", recs |-> <<>>]

CorruptText == [kind |-> "corrupt", recs |-> <<>>]

json_dump(bookings) == [kind |-> "json", recs |-> bookings]

json_loads(text) == IF text.kind = "json" THEN [ok |-> TRUE, val |-> text.recs] ELSE [ok |-> FALSE, val |-> <<>>]

MissingFile == [exists |-> FALSE, text |-> BlankText]

FileOf(text) == [exists |-> TRUE, text |-> text]

\* open(..., "r"): the handle starts at the beginning of the text
open_r(f) == [text |-> f.text, pos |-> "start"]

\* f.read(): the rest of the text from the handle's position; the handle is left at the end
f_read(h) == [data |-> IF h.pos = "start" THEN h.text ELSE BlankText, h |-> [h EXCEPT !.pos = "end"]]

\* json.load(f) if f.read().strip() else [] inside try/except: the condition
\* reads the handle first, json.load reads what is left of it
read_bookings(f) ==
    IF ~f.exists THEN [ok |-> FALSE, val |-> <<>>]
    ELSE LET first == f_read(open_r(f))
         IN  IF first.data.kind # "blank"
             THEN json_loads(f_read(first.h).data)
             ELSE [ok |-> TRUE, val |-> <<>>]

RECURSIVE SumVisitors(_, _, _)
SumVisitors(bookings, museum_name, date) ==
    IF bookings = <<>> THEN 0
    ELSE LET b == Head(bookings)
         IN  (IF lower(b.Museum) = lower(museum_name) /\ b.Date = date
              THEN b.Visitors.Adults + b.Visitors.Kids ELSE 0)
             + SumVisitors(Tail(bookings), museum_name, date)

check_capacity(f, museum_name, date) ==
    LET got == read_bookings(f)
    IN  IF ~got.ok THEN 0 ELSE SumVisitors(got.val, museum_name, date)

save_booking(f, booking_details) ==
    LET got == read_bookings(f)
        bookings == IF got.ok THEN got.val ELSE <<>>
    IN  FileOf(json_dump(Append(bookings, booking_details)))

\* the records a correct reader finds in the file
Ledger(f) == IF f.exists /\ f.text.kind = "json" THEN f.text.recs ELSE <<>>

(***************************************************************************)
(* Time slots.                                                             *)
(***************************************************************************)
normalize_time_slot(time_slot) == replace(collapse_spaces(upper(strip(time_slot))), <<".">>, <<>>)

slot_hour(slot) == parse_int(split_first(slot, ":"))

get_available_time_slots(booking_date, td, hr) ==
    IF py_eq(booking_date, DateObj(td))
    THEN SelectSeq(TIME_SLOTS, LAMBDA slot : slot_hour(slot) > hr)
    ELSE TIME_SLOTS

(***************************************************************************)
(* find_best_museum.  process.extractOne is the fuzzywuzzy library: its    *)
(* answer fz = [match, score] is an input, any candidate with any score.   *)
(* The result is the index of the museum in museum_data, 0 for None.       *)
(***************************************************************************)
s_book_me == <<"b", "o", "o", "k", " ", "m", "e", " ", "a", " ", "t", "i", "c", "k", "e", "t", " ", "t", "o">>

TitleKeys(md) == {lower(md[i].title) : i \in DOMAIN md}

\* museum_titles[k]: a later museum with the same lowered title replaces an earlier one
ByKey(md, k) == CHOOSE i \in DOMAIN md : lower(md[i].title) = k /\ \A j \in DOMAIN md : lower(md[j].title) = k => j <= i

NoFz == [match |-> <<>>, score |-> 0]

find_best_museum(user_input, md, fz) ==
    LET cleaned == strip(replace(clean_input(user_input), s_book_me, <<>>))
    IN  IF cleaned \in TitleKeys(md) THEN [idx |-> ByKey(md, cleaned), exact |-> TRUE]
        ELSE IF md # <<>> /\ fz.match # <<>> THEN [idx |-> ByKey(md, fz.match), exact |-> FALSE]
        ELSE [idx |-> 0, exact |-> FALSE]

(***************************************************************************)
(* book_ticket.                                                            *)
(***************************************************************************)
NoDetails ==
    [Name |-> "", Museum |-> <<>>, Visitors |-> [Adults |-> 0, Kids |-> 0], TicketType |-> <<>>,
     Date |-> BadDateStr, TimeSlot |-> <<>>, TotalPrice2 |-> 0]

\* a slip that leaves out the 60-day limit
validate_without_window(req, md, fz, td) ==
    LET found == find_best_museum(req.museum_name, md, fz)
        parsed == strptime(req.booking_date)
    IN  IF found.idx = 0 THEN [reason |-> "museum_not_found", idx |-> 0]
        ELSE IF lower(req.ticket_type) \notin DOMAIN TICKET_TYPE THEN [reason |-> "invalid_ticket_type", idx |-> found.idx]
        ELSE IF ~parsed.ok THEN [reason |-> "invalid_date_format", idx |-> found.idx]
        ELSE IF parsed.date.day < td THEN [reason |-> "past_date", idx |-> found.idx]
        ELSE [reason |-> "none", idx |-> found.idx]

\* lines 76-94: museum, ticket type, date format, date range
validate(req, md, fz, td) ==
    LET found == find_best_museum(req.museum_name, md, fz)
        parsed == strptime(req.booking_date)
    IN  IF found.idx = 0 THEN [reason |-> "museum_not_found", idx |-> 0]
        ELSE IF lower(req.ticket_type) \notin DOMAIN TICKET_TYPE THEN [reason |-> "invalid_ticket_type", idx |-> found.idx]
        ELSE IF ~parsed.ok THEN [reason |-> "invalid_date_format", idx |-> found.idx]
        ELSE IF parsed.date.day < td THEN [reason |-> "past_date", idx |-> found.idx]
        ELSE IF parsed.date.day > td + BOOKING_WINDOW_DAYS THEN [reason |-> "beyond_60_days", idx |-> found.idx]
        ELSE [reason |-> "none", idx |-> found.idx]

\* lines 98-100: time slot
check_slot(req, td, hr) ==
    LET available_slots == get_available_time_slots(req.booking_date, td, hr)
    IN  IF normalize_time_slot(req.time_slot) \notin {normalize_time_slot(available_slots[i]) : i \in DOMAIN available_slots}
        THEN "invalid_time_slot"
        ELSE "none"

\* a slip that charges kids the full ticket price
total_price2_kids_full(req, museum) ==
    LET base_price == museum.price
        ticket_price == base_price + TICKET_TYPE[lower(req.ticket_type)]
    IN  (2 * req.adults * ticket_price) + (2 * req.kids * ticket_price)

\* lines 102-104, in half rupees
total_price2(req, museum) ==
    LET base_price == museum.price
        ticket_price == base_price + TICKET_TYPE[lower(req.ticket_type)]
    IN  (2 * req.adults * ticket_price) + (req.kids * ticket_price)

\* lines 106-114
make_details(req, museum) ==
    [Name |-> req.name, Museum |-> museum.title,
     Visitors |-> [Adults |-> req.adults, Kids |-> req.kids],
     TicketType |-> capitalize(req.ticket_type), Date |-> req.booking_date,
     TimeSlot |-> req.time_slot, TotalPrice2 |-> total_price2(req, museum)]

(***************************************************************************)
(* The requests of the model: a base request and every request that        *)
(* differs from it in at most MaxDeviations fields.                        *)
(***************************************************************************)
MaxDeviations == 1

Names == {"ann"}

MuseumNames ==
    { <<"A", "r", "t">>,
      <<"b", "o", "o", "k", " ", "m", "e", " ", "a", " ", "t", "i", "c", "k", "e", "t", " ", "t", "o", " ", "S", "C", "I", "!">>,
      <<"z", "o", "o">> }

TicketTypes ==
    { <<"s", "t", "a", "n", "d", "a", "r", "d">>, <<"E", "l", "i", "t", "e">>,
      <<"P", "R", "E", "M", "I", "U", "M">>, <<"v", "i", "p">> }

BookingDates ==
    { DateStr(1, "padded"), DateStr(1, "bare"), DateStr(0, "padded"),
      DateStr(1 + BOOKING_WINDOW_DAYS, "padded"), DateStr(MaxDay + BOOKING_WINDOW_DAYS + 1, "padded"), BadDateStr }

TimeSlotInputs ==
    { <<"1", "0", ":", "0", "0", " ", "A", "M">>,
      <<" ", "5", ":", "0", "0", " ", " ", "p", ".", "m", ".", " ">>,
      <<"9", ":", "0", "0", " ", "A", "M">> }

AdultCounts == {2, MAX_VISITORS_PER_DAY}

KidCounts == {1, 0}

BaseRequest ==
    [name |-> "ann", museum_name |-> <<"A", "r", "t">>, ticket_type |-> s_standard,
     booking_date |-> DateStr(1, "padded"), time_slot |-> TIME_SLOTS[1], adults |-> 2, kids |-> 1]

Deviations(r) == Cardinality({k \in DOMAIN BaseRequest : r[k] # BaseRequest[k]})

Requests ==
    {r \in [name : Names, museum_name : MuseumNames, ticket_type : TicketTypes, booking_date : BookingDates,
            time_slot : TimeSlotInputs, adults : AdultCounts, kids : KidCounts] : Deviations(r) <= MaxDeviations}

\* the hours of the day at which the clock is read
ClockHours == {9, 12}

FuzzyScores == {50, 90}

\* what process.extractOne may answer for this request: used only when no title matches exactly
FuzzyAnswers(req, md) ==
    IF md = <<>> \/ find_best_museum(req.museum_name, md, NoFz).exact THEN {NoFz}
    ELSE [match : TitleKeys(md), score : FuzzyScores]

(***************************************************************************)
(* A call of book_ticket: a request, the catalog and the library's answer, *)
(* with the parts of the handler that read nothing but these and the clock *)
(* (validate, check_slot, make_details) tabulated once.                    *)
(***************************************************************************)
Catalogs == {SampleCatalog, <<>>}

Calls ==
    UNION {{[req |-> req, md |-> md, fz |-> fz] : fz \in FuzzyAnswers(req, md)} : req \in Requests, md \in Catalogs}

Prepared(c) ==
    [req |-> c.req, md |-> c.md, fz |-> c.fz,
     validated |-> [td \in 0..MaxDay |-> validate(c.req, c.md, c.fz, td)],
     slot |-> [td \in 0..MaxDay |-> [hr \in ClockHours |-> check_slot(c.req, td, hr)]],
     details |-> [i \in DOMAIN c.md |->
                   IF lower(c.req.ticket_type) \in DOMAIN TICKET_TYPE THEN make_details(c.req, c.md[i]) ELSE NoDetails]]

PreparedCalls == {Prepared(c) : c \in Calls}

StatusOf(reason) == IF reason = "none" THEN 200 ELSE IF reason = "museum_not_found" THEN 404 ELSE 400

\* lines 95-100 on ledger file f: capacity, then time slot
admit(call, museum, f, td, hr) ==
    IF check_capacity(f, museum.title, call.req.booking_date) >= MAX_VISITORS_PER_DAY THEN "fully_booked"
    ELSE call.slot[td][hr]

\* the whole handler on ledger file f at clock (td, hr)
book_ticket(call, f, td, hr) ==
    LET v == call.validated[td]
        reason == IF v.reason # "none" THEN v.reason ELSE admit(call, call.md[v.idx], f, td, hr)
    IN  IF reason # "none"
        THEN [reason |-> reason, idx |-> v.idx, details |-> NoDetails, file |-> f]
        ELSE [reason |-> "none", idx |-> v.idx, details |-> call.details[v.idx],
              file |-> save_booking(f, call.details[v.idx])]

(***************************************************************************)
(* State.                                                                  *)
(***************************************************************************)
Procs == {1, 2}

NoJob == [req |-> BaseRequest, reason |-> "none", details |-> NoDetails, bookings |-> <<>>, seen |-> 0]

NoLast == [op |-> "none", req |-> BaseRequest, fz |-> NoFz, reason |-> "none", status |-> 0, idx |-> 0, details |-> NoDetails]

NoChat == [op |-> "none", msg |-> <<>>, fzLoc |-> NoFz, fzTitle |-> NoFz, intent |-> "none", out |-> <<>>, llm |-> FALSE, error |-> FALSE]

InitFiles == {MissingFile, FileOf(BlankText), FileOf(CorruptText), FileOf(json_dump(<<>>))}

Init ==
    /\ museum_data \in Catalogs
    /\ file \in InitFiles
    /\ today = 0
    /\ hour \in ClockHours
    /\ last = NoLast
    /\ chatLast = NoChat
    /\ pc = [p \in Procs |-> "idle"]
    /\ job = [p \in Procs |-> NoJob]
    /\ overlapped = FALSE

\* POST /book_ticket handled from start to end with no other request in between
BookTicket(call) ==
    LET out == book_ticket(call, file, today, hour)
    IN  /\ call.md = museum_data
        /\ Len(Ledger(file)) < MaxLedger
        /\ file' = out.file
        /\ last' = [op |-> "book", req |-> call.req, fz |-> call.fz, reason |-> out.reason,
                    status |-> StatusOf(out.reason), idx |-> out.idx, details |-> out.details]
        /\ UNCHANGED <<museum_data, today, hour, chatLast, pc, job, overlapped>>

\* the wall clock moves on
Tick ==
    /\ \E d \in today..MaxDay, h \in ClockHours :
          /\ (d > today \/ h > hour)
          /\ today' = d
          /\ hour' = h
    /\ UNCHANGED <<museum_data, file, last, chatLast, pc, job, overlapped>>

Next ==
    \/ \E call \in PreparedCalls : BookTicket(call)
    \/ Tick

Spec == Init /\ [][Next]_vars

(***************************************************************************)
(* Properties of the booking handler, checked under Spec.                  *)
(***************************************************************************)
\* a step in which book_ticket handled the request now recorded in last
Booked == last'.op = "book" /\ (last' # last \/ file' # file)

Accepted == last.op = "book" /\ last.status = 200

\* visitors the ledger holds for a museum title and a date string
LedgerSum(f, title, date) == SumVisitors(Ledger(f), title, date)

\* the start hour of a listed slot on the 24-hour clock
StartHour24(slot) ==
    LET h == slot_hour(slot)
        pm == Contains(slot, <<"P", "M">>)
    IN  IF pm /\ h # 12 THEN h + 12 ELSE h

ListedSlots == {normalize_time_slot(TIME_SLOTS[i]) : i \in DOMAIN TIME_SLOTS}

\* C1: for every museum and date the ledger's records for that museum and
\* date hold at most MAX_VISITORS_PER_DAY visitors in total.
C1_DailyCapRespected ==
    \A i \in DOMAIN Ledger(file) :
        LedgerSum(file, Ledger(file)[i].Museum, Ledger(file)[i].Date) <= MAX_VISITORS_PER_DAY

\* C2: a request for a museum/date pair whose ledger records already hold
\* MAX_VISITORS_PER_DAY visitors or more is rejected and adds no record, and
\* the reason is "fully booked" when no earlier rule rejects it.
C2_FullPairRejected ==
    [][(Booked /\ last'.idx # 0
         /\ LedgerSum(file, museum_data[last'.idx].title, last'.req.booking_date) >= MAX_VISITORS_PER_DAY)
        => /\ last'.status # 200
           /\ file' = file
           /\ last'.reason \in {"invalid_ticket_type", "invalid_date_format", "past_date", "beyond_60_days", "fully_booked"}]_vars

\* C3: save_booking on a well-formed ledger L leaves exactly L followed by
\* the new record.
C3_AppendOnly ==
    [][(Booked /\ last'.status = 200 /\ file.exists /\ file.text.kind = "json")
        => Ledger(file') = Append(Ledger(file), last'.details)]_vars

\* C4: a request whose date parses but lies before today or more than 60
\* days ahead is rejected with a client error and writes nothing; a step
\* that writes a record writes one dated within [today, today + 60].
C4_DateWindow ==
    [][Booked =>
        LET d == last'.req.booking_date
        IN  /\ (d.ok /\ (d.day < today \/ d.day > today + 60))
                => (last'.status \in {400, 404} /\ file' = file)
            /\ file' # file
                => /\ d.ok /\ today <= d.day /\ d.day <= today + 60
                   /\ Ledger(file') # <<>>
                   /\ Ledger(file')[Len(Ledger(file'))].Date = d]_vars

C4_Witness ==
    /\ last.op = "book"
    /\ last.reason = "beyond_60_days"
    /\ last.req.booking_date.day = today + 61
    /\ last.status = 400

\* the price delta of each recognised tier
TierDelta(tier) ==
    CASE lower(tier) = <<"s", "t", "a", "n", "d", "a", "r", "d">> -> 0
      [] lower(tier) = <<"p", "r", "e", "m", "i", "u", "m">> -> 100
      [] lower(tier) = <<"e", "l", "i", "t", "e">> -> 300

\* C5: the Total Price returned and stored for an accepted booking is
\* adults * tier price + kids * tier price * 0.5 with tier price = base price
\* + tier delta (here doubled); 2 adults + 1 kid, standard, base 100 is 250.
C5_TotalPrice ==
    Accepted =>
        LET r == last.req
            tier_price == museum_data[last.idx].price + TierDelta(r.ticket_type)
            stored == Ledger(file)[Len(Ledger(file))]
        IN  /\ last.details.TotalPrice2 = (2 * r.adults * tier_price) + (r.kids * tier_price)
            /\ Ledger(file) # <<>>
            /\ stored.TotalPrice2 = last.details.TotalPrice2
            /\ (r.adults = 2 /\ r.kids = 1 /\ tier_price = 100) => stored.TotalPrice2 = 2 * 250

C5_Witness ==
    /\ Accepted
    /\ last.req.adults = 2 /\ last.req.kids = 1
    /\ lower(last.req.ticket_type) = s_standard
    /\ museum_data[last.idx].price = 100
    /\ Ledger(file)[Len(Ledger(file))].TotalPrice2 = 500

\* C6: a request for today is accepted only with a listed slot whose start
\* hour is later than the current hour.
C6_TodaySlotLater ==
    [][(Booked /\ last'.status = 200 /\ last'.req.booking_date.day = today)
        => /\ normalize_time_slot(last'.req.time_slot) \in ListedSlots
           /\ StartHour24(normalize_time_slot(last'.req.time_slot)) > hour]_vars

\* C7: without an exact title match the request is accepted only if the
\* fuzzy score passes 80, otherwise it is rejected as unknown museum.
C7_FuzzyThreshold ==
    (last.op = "book" /\ last.fz # NoFz /\ last.fz.score <= 80) => last.reason = "museum_not_found"

\* the reason of the first broken rule in the documented order
FirstBroken(req, title, f, td, hr) ==
    LET d == req.booking_date
        slot == normalize_time_slot(req.time_slot)
    IN  IF lower(req.ticket_type) \notin {s_standard, s_premium, s_elite} THEN "invalid_ticket_type"
        ELSE IF ~d.ok THEN "invalid_date_format"
        ELSE IF d.day < td THEN "past_date"
        ELSE IF d.day > td + 60 THEN "beyond_60_days"
        ELSE IF LedgerSum(f, title, d) >= MAX_VISITORS_PER_DAY THEN "fully_booked"
        ELSE IF slot \notin ListedSlots \/ (d.day = td /\ StartHour24(slot) <= hr) THEN "invalid_time_slot"
        ELSE "none"

\* C8: on a resolved museum the reason returned is that of the first broken
\* rule in the order tier, date format, past date, 60 days, capacity, slot.
C8_FailFastOrder ==
    [][(Booked /\ last'.idx # 0)
        => last'.reason = FirstBroken(last'.req, museum_data[last'.idx].title, file, today, hour)]_vars

(***************************************************************************)
(* get_relevant_museum, the handler of POST /chat.  fzLoc is the library's *)
(* answer to process.extractOne over the location names (line 156), fzTitle *)
(* its answer over the titles (lines 163, 178, 204, 222).                  *)
(***************************************************************************)
greetings ==
    { <<"h", "i">>,
      <<"h", "e", "l", "l", "o">>,
      <<"h", "e", "y">>,
      <<"g", "o", "o", "d", " ", "m", "o", "r", "n", "i", "n", "g">>,
      <<"g", "o", "o", "d", " ", "a", "f", "t", "e", "r", "n", "o", "o", "n">>,
      <<"g", "o", "o", "d", " ", "e", "v", "e", "n", "i", "n", "g">> }

IsGreeting(ui) == \E word \in greetings : Contains(ui, word)

IsThanks(ui) == Contains(ui, <<"t", "h", "a", "n", "k">>) \/ Contains(ui, <<"t", "h", "a", "n", "k", "s">>) \/ Contains(ui, <<"a", "p", "p", "r", "e", "c", "i", "a", "t", "e">>) \/ Contains(ui, <<"g", "r", "a", "t", "e", "f", "u", "l">>)

IsBooking(ui) == Contains(ui, <<"b", "o", "o", "k">>) \/ Contains(ui, <<"r", "e", "s", "e", "r", "v", "e">>)

tier_keywords ==
    { <<"e", "l", "i", "t", "e">>,
      <<"p", "r", "e", "m", "i", "u", "m">>,
      <<"s", "t", "a", "n", "d", "a", "r", "d">>,
      <<"l", "u", "x", "u", "r", "i", "o", "u", "s">>,
      <<"a", "f", "f", "o", "r", "d", "a", "b", "l", "e">>,
      <<"c", "h", "e", "a", "p">>,
      <<"v", "s">> }

IsTierQuestion(ui) == \E keyword \in tier_keywords : Contains(ui, keyword)

\* ticket_info.items(): elite, premium, standard, in this order
ticket_info_keys == <<s_elite, s_premium, s_standard>>

IsMumbai(ui) == Contains(ui, <<"m", "u", "m", "b", "a", "i">>) \/ Contains(ui, <<"c", "h", "h", "a", "t", "r", "a", "p", "a", "t", "i", " ", "s", "h", "i", "v", "a", "j", "i">>)

IsKidsPrice(ui) == (Contains(ui, <<"p", "r", "i", "c", "e">>) /\ Contains(ui, <<"k", "i", "d", "s">>)) \/ (Contains(ui, <<"p", "r", "i", "c", "e">>) /\ Contains(ui, <<"c", "h", "i", "l", "d", "r", "e", "n">>)) \/ (Contains(ui, <<"c", "o", "n", "c", "e", "s", "s", "i", "o", "n">>) /\ Contains(ui, <<"t", "i", "c", "k", "e", "t">>))

IsPrice(ui) == Contains(ui, <<"p", "r", "i", "c", "e">>) \/ Contains(ui, <<"c", "o", "s", "t">>) \/ Contains(ui, <<"t", "i", "c", "k", "e", "t">>)

IsRating(ui) == Contains(ui, <<"r", "a", "t", "i", "n", "g">>)

IsContact(ui) == Contains(ui, <<"c", "o", "n", "t", "a", "c", "t">>) \/ Contains(ui, <<"p", "h", "o", "n", "e">>) \/ Contains(ui, <<"e", "m", "a", "i", "l">>)

HasTop(ui) == Contains(ui, <<"t", "o", "p">>)

IsDigit(c) == c \in Range(DigitChars)

\* the positions at which re.search(r"top\s*(\d+)", ui) can match
TopMatches(ui) ==
    {i \in 1..Len(ui) : /\ StartsWith(Drop(ui, i - 1), <<"t", "o", "p">>)
                        /\ lstrip(Drop(ui, i + 2)) # <<>>
                        /\ IsDigit(Head(lstrip(Drop(ui, i + 2))))}

RECURSIVE leading_digits(_)
leading_digits(s) == IF s # <<>> /\ IsDigit(Head(s)) THEN <<Head(s)>> \o leading_digits(Tail(s)) ELSE <<>>

Min(S) == CHOOSE x \in S : \A y \in S : x <= y

\* int(match.group(1))
top_number(ui) == parse_int(leading_digits(lstrip(Drop(ui, Min(TopMatches(ui)) + 2))))

location_names(md) == [i \in 1..(2 * Len(md)) |-> IF i <= Len(md) THEN lower(md[i].location) ELSE lower(md[i - Len(md)].state)]

\* next((museum for museum in museum_data if ...), None) over the indices of
\* the museums that satisfy the condition: the first index, 0 for None
FirstIndex(matching) == IF matching # {} THEN Min(matching) ELSE 0

\* sorted(museum_data, key=rating, reverse=True) as indices: stable, equal ratings keep their order
sorted_by_rating(md) ==
    LET before(j, i) == md[j].rating > md[i].rating \/ (md[j].rating = md[i].rating /\ j < i)
        rank(i) == 1 + Cardinality({j \in DOMAIN md : before(j, i)})
    IN  [k \in DOMAIN md |-> CHOOSE i \in DOMAIN md : rank(i) = k]

Reply(intent, out, asked) == [intent |-> intent, out |-> out, asked |-> asked, llm |-> FALSE, error |-> FALSE]

\* the museum a fuzzy title match selects when its score is above 80, else 0
title_match(md, fzTitle) ==
    IF fzTitle.match # <<>> /\ fzTitle.score > 80
    THEN FirstIndex({i \in DOMAIN md : lower(md[i].title) = fzTitle.match})
    ELSE 0

\* a slip that asks for the "top N" ranking before the location lookup
top_before_location(ui, md, fzLoc) ==
    LET in_location == {i \in DOMAIN md : lower(md[i].location) = fzLoc.match \/ lower(md[i].state) = fzLoc.match}
    IN  IF HasTop(ui) /\ TopMatches(ui) # {} THEN
            Reply("top_n", SubSeq(sorted_by_rating(md), 1, IF top_number(ui) < Len(md) THEN top_number(ui) ELSE Len(md)), {"loc"})
        ELSE IF fzLoc.score > 80 /\ in_location # {} THEN
            Reply("location", SelectSeq([i \in DOMAIN md |-> i], LAMBDA i : i \in in_location), {"loc"})
        ELSE [Reply("llm", <<>>, {"loc"}) EXCEPT !.llm = TRUE]

\* lines 237-274: location lookup, "top N" ranking, the external model
location_top_or_model(ui, md, fzLoc) ==
    LET in_location == {i \in DOMAIN md : lower(md[i].location) = fzLoc.match \/ lower(md[i].state) = fzLoc.match}
    IN  IF fzLoc.score > 80 /\ in_location # {} THEN
            Reply("location", SelectSeq([i \in DOMAIN md |-> i], LAMBDA i : i \in in_location), {"loc"})
        ELSE IF HasTop(ui) /\ TopMatches(ui) # {} THEN
            Reply("top_n", SubSeq(sorted_by_rating(md), 1, IF top_number(ui) < Len(md) THEN top_number(ui) ELSE Len(md)), {"loc"})
        ELSE [Reply("llm", <<>>, {"loc"}) EXCEPT !.llm = TRUE]

get_relevant_museum(user_input, md, fzLoc, fzTitle) ==
    LET ui == clean_input(user_input)
        contained == FirstIndex({i \in DOMAIN md : \/ Contains(lower(md[i].title), ui)
                                                    \/ Contains(lower(md[i].state), ui)
                                                    \/ Contains(lower(md[i].location), ui)})
    IN  IF IsGreeting(ui) THEN Reply("greeting", <<>>, {})
        ELSE IF IsThanks(ui) THEN Reply("thanks", <<>>, {})
        ELSE IF IsBooking(ui) THEN
            \* line 140 calls book_ticket with a str, which has no attribute museum_name
            IF \E i \in DOMAIN md : Contains(ui, lower(md[i].title))
            THEN [Reply("booking", <<>>, {}) EXCEPT !.error = TRUE]
            ELSE Reply("booking", <<>>, {})
        ELSE IF IsTierQuestion(ui) THEN
            IF \E k \in DOMAIN ticket_info_keys : Contains(ui, ticket_info_keys[k])
            THEN Reply("tier", <<Min({k \in DOMAIN ticket_info_keys : Contains(ui, ticket_info_keys[k])})>>, {})
            ELSE Reply("tier", <<>>, {})
        \* line 156: extractOne over an empty list has no (match, score) to unpack
        ELSE IF md = <<>> THEN [Reply("none", <<>>, {}) EXCEPT !.error = TRUE]
        ELSE IF IsMumbai(ui) THEN Reply("mumbai", <<>>, {"loc"})
        ELSE IF IsKidsPrice(ui) THEN Reply("kids_price", <<title_match(md, fzTitle)>>, {"loc", "title"})
        ELSE IF IsPrice(ui) THEN Reply("price", <<title_match(md, fzTitle)>>, {"loc", "title"})
        ELSE IF IsRating(ui) THEN
            IF contained # 0 THEN Reply("rating", <<contained>>, {"loc"})
            ELSE Reply("rating", <<title_match(md, fzTitle)>>, {"loc", "title"})
        ELSE IF IsContact(ui) THEN Reply("contact", <<title_match(md, fzTitle)>>, {"loc", "title"})
        ELSE location_top_or_model(ui, md, fzLoc)

ChatMessages ==
    { <<"h", "e", "l", "l", "o">>,
      <<"w", "h", "a", "t", " ", "i", "s", " ", "t", "h", "i", "s">>,
      <<"T", "h", "a", "n", "k", "s", ",", " ", "t", "o", "p", " ", "1", "!">>,
      <<"b", "o", "o", "k", " ", "a", "r", "t">>,
      <<"r", "e", "s", "e", "r", "v", "e", " ", "a", " ", "s", "e", "a", "t">>,
      <<"e", "l", "i", "t", "e", " ", "v", "s", " ", "s", "t", "a", "n", "d", "a", "r", "d">>,
      <<"c", "h", "e", "a", "p", "?">>,
      <<"m", "u", "m", "b", "a", "i", " ", "m", "u", "s", "e", "u", "m", "s">>,
      <<"p", "r", "i", "c", "e", " ", "f", "o", "r", " ", "k", "i", "d", "s", " ", "a", "t", " ", "s", "c", "i">>,
      <<"c", "o", "s", "t", " ", "o", "f", " ", "a", "r", "t">>,
      <<"r", "a", "t", "i", "n", "g", " ", "o", "f", " ", "s", "c", "i">>,
      <<"A", "r", "t", " ", "r", "a", "t", "i", "n", "g">>,
      <<"e", "m", "a", "i", "l", " ", "o", "f", " ", "a", "r", "t">>,
      <<"m", "u", "s", "e", "u", "m", "s", " ", "i", "n", " ", "g", "o", "a">>,
      <<"t", "o", "p", " ", "3", " ", "i", "n", " ", "g", "o", "a">>,
      <<"t", "o", "p", " ", "5", " ", "m", "u", "s", "e", "u", "m", "s">>,
      <<"t", "o", "p", " ", "m", "u", "s", "e", "u", "m", "s">>,
      <<"w", "e", "a", "t", "h", "e", "r">>,
      <<"t", "o", "p", " ", "2", " ", "p", "r", "i", "c", "e">> }

LocAnswers(md) == IF md = <<>> THEN {NoFz} ELSE [match : Range(location_names(md)), score : FuzzyScores]

TitleAnswers(md) == IF md = <<>> THEN {NoFz} ELSE [match : TitleKeys(md), score : FuzzyScores]

ChatCalls ==
    UNION {{[msg |-> msg, md |-> md, fzLoc |-> fzLoc, fzTitle |-> fzTitle,
             reply |-> get_relevant_museum(msg, md, fzLoc, fzTitle)] : fzLoc \in LocAnswers(md), fzTitle \in TitleAnswers(md)}
           : msg \in ChatMessages, md \in Catalogs}

\* POST /chat
Chat(c) ==
    /\ c.md = museum_data
    /\ chatLast' = [op |-> "chat", msg |-> c.msg,
                    fzLoc |-> IF "loc" \in c.reply.asked THEN c.fzLoc ELSE NoFz,
                    fzTitle |-> IF "title" \in c.reply.asked THEN c.fzTitle ELSE NoFz,
                    intent |-> c.reply.intent, out |-> c.reply.out, llm |-> c.reply.llm, error |-> c.reply.error]
    /\ UNCHANGED <<museum_data, file, today, hour, last, pc, job, overlapped>>

InitChat ==
    /\ museum_data \in Catalogs
    /\ file = MissingFile
    /\ today = 0
    /\ hour \in ClockHours
    /\ last = NoLast
    /\ chatLast = NoChat
    /\ pc = [p \in Procs |-> "idle"]
    /\ job = [p \in Procs |-> NoJob]
    /\ overlapped = FALSE

NextChat == \E c \in ChatCalls : Chat(c)

SpecChat == InitChat /\ [][NextChat]_vars

(***************************************************************************)
(* Properties of the chat handler, checked under SpecChat.                 *)
(***************************************************************************)
\* whether the message and the library's location answer match a canned intent
Matches(intent, ui, fzLoc) ==
    CASE intent = "greeting" -> IsGreeting(ui)
      [] intent = "thanks" -> IsThanks(ui)
      [] intent = "booking" -> IsBooking(ui)
      [] intent = "tier" -> IsTierQuestion(ui)
      [] intent = "mumbai" -> IsMumbai(ui)
      [] intent = "kids_price" -> IsKidsPrice(ui)
      [] intent = "price" -> IsPrice(ui)
      [] intent = "rating" -> IsRating(ui)
      [] intent = "contact" -> IsContact(ui)
      [] intent = "top_n" -> HasTop(ui) /\ TopMatches(ui) # {}
      [] intent = "location" -> fzLoc.score > 80

\* the first intent of the order that matches, "llm" when none does
FirstMatch(order, ui, fzLoc) ==
    IF \E k \in DOMAIN order : Matches(order[k], ui, fzLoc)
    THEN order[Min({k \in DOMAIN order : Matches(order[k], ui, fzLoc)})]
    ELSE "llm"

\* the order the claim states: ... price/rating/contact lookup, "top N", location
ClaimedOrder == <<"greeting", "thanks", "booking", "tier", "mumbai", "kids_price", "price", "rating", "contact", "top_n", "location">>

\* the order of the code: ... price/rating/contact lookup, location, "top N"
CodeOrder == <<"greeting", "thanks", "booking", "tier", "mumbai", "kids_price", "price", "rating", "contact", "location", "top_n">>

\* the reply is that of the first matching intent of the order, and the
\* external model is called iff none matches (chatLast.fzLoc is NoFz, score
\* 0, when the handler answered before it asked for a location match)
ChatAnswered(order) ==
    (chatLast.op = "chat" /\ museum_data # <<>>)
        => LET first == FirstMatch(order, clean_input(chatLast.msg), chatLast.fzLoc)
           IN  /\ chatLast.intent = first
               /\ chatLast.llm <=> first = "llm"

InFlight(p) == pc[p] \in {"save", "open_w", "dump"}

\* lines 76-100: validation, the capacity check on the file as it is now, the slot check
Begin(p, call) ==
    LET v == call.validated[today]
        seen == IF v.reason = "none" THEN check_capacity(file, call.md[v.idx].title, call.req.booking_date) ELSE 0
        reason == IF v.reason # "none" THEN v.reason ELSE admit(call, call.md[v.idx], file, today, hour)
    IN  /\ pc[p] = "idle"
        /\ call.md = museum_data
        /\ pc' = [pc EXCEPT ![p] = IF reason = "none" THEN "save" ELSE "done"]
        /\ job' = [job EXCEPT ![p] = [req |-> call.req, reason |-> reason, seen |-> seen, bookings |-> <<>>,
                                      details |-> IF reason = "none" THEN call.details[v.idx] ELSE NoDetails]]
        /\ overlapped' = (overlapped \/ \E q \in Procs \ {p} : InFlight(q))
        /\ UNCHANGED <<museum_data, file, today, hour, last, chatLast>>

\* save_booking, lines 45-50: load the ledger, append in memory
SaveRead(p) ==
    LET got == read_bookings(file)
    IN  /\ pc[p] = "save"
        /\ job' = [job EXCEPT ![p].bookings = Append(IF got.ok THEN got.val ELSE <<>>, job[p].details)]
        /\ pc' = [pc EXCEPT ![p] = "open_w"]
        /\ UNCHANGED <<museum_data, file, today, hour, last, chatLast, overlapped>>

\* save_booking, line 51: open(booking_file, "w") empties the file
SaveOpenW(p) ==
    /\ pc[p] = "open_w"
    /\ file' = FileOf(BlankText)
    /\ pc' = [pc EXCEPT ![p] = "dump"]
    /\ UNCHANGED <<museum_data, today, hour, last, chatLast, job, overlapped>>

\* save_booking, line 52, and the return of line 118
SaveDump(p) ==
    /\ pc[p] = "dump"
    /\ file' = FileOf(json_dump(job[p].bookings))
    /\ pc' = [pc EXCEPT ![p] = "done"]
    /\ UNCHANGED <<museum_data, today, hour, last, chatLast, job, overlapped>>

InitConc ==
    /\ museum_data = SampleCatalog
    /\ file \in InitFiles
    /\ today = 0
    /\ hour \in ClockHours
    /\ last = NoLast
    /\ chatLast = NoChat
    /\ pc = [p \in Procs |-> "idle"]
    /\ job = [p \in Procs |-> NoJob]
    /\ overlapped = FALSE

NextConc ==
    \E p \in Procs :
        \/ \E call \in PreparedCalls : Begin(p, call)
        \/ SaveRead(p)
        \/ SaveOpenW(p)
        \/ SaveDump(p)

SpecConc == InitConc /\ [][NextConc]_vars

Confirmed(p) == pc[p] = "done" /\ job[p].reason = "none"

\* C10: two requests that run one after the other and are both confirmed
\* are both in the ledger afterwards.
C10_NoLossInSequence ==
    (~overlapped /\ Confirmed(1) /\ Confirmed(2))
        => /\ Len(Ledger(file)) = 2
           /\ {job[1].details, job[2].details} = Range(Ledger(file))

\* the lost update of two overlapping requests (a reachable state): both
\* confirmed, both passed the capacity check on the same count, one record
\* in the ledger
LostUpdateRace ==
    /\ overlapped /\ Confirmed(1) /\ Confirmed(2)
    /\ job[1].seen = job[2].seen
    /\ job[1].details # job[2].details
    /\ Len(Ledger(file)) = 1

====
